---- MODULE Spec2Model ----
(***************************************************************************)
(* PerIntervalGains (cubical/machines/interval_gain_machine.py): interval  *)
(* geometry, binned reductions and gain-flag bookkeeping.                  *)
(*                                                                         *)
(* An n-dimensional numpy array is a record [ok, shape, data]: shape is    *)
(* the sequence of axis extents and data maps every index tuple (0-based   *)
(* components, as in Python) to its element.  A numpy call that raises is  *)
(* the record Raised (ok = FALSE).                                         *)
(***************************************************************************)
EXTENDS Integers, Sequences, FiniteSets, TLC

VARIABLES
    pc,                    \* "new", "constructed", or the exception __init__ ended in
    n_dir, n_tim, n_fre, n_ant,
    t_int, f_int,
    n_timint, n_freint, n_tf_ints,
    t_bins, f_bins,
    flag_shape, gflags,
    eqs_per_interval, valid_intervals, num_valid_intervals,
    missing_gain_fraction,
    missing_gains,         \* the local of the last compute_stats that reached line 78
    op,                    \* the last operation performed on the object
    args,                  \* the arguments of the last call
    exc,                   \* how the last call ended: "none" or the exception raised
    repeated,              \* the last call repeated the arguments of the call before it
    n_calls,               \* the number of compute_stats calls made so far
    ret                    \* the value returned by the last interval_sum call

geometry == <<n_dir, n_tim, n_fre, n_ant, t_int, f_int, n_timint, n_freint,
              n_tf_ints, t_bins, f_bins, flag_shape>>
stats == <<eqs_per_interval, valid_intervals, num_valid_intervals,
           missing_gain_fraction>>
vars == <<n_calls, op, pc, gflags, geometry, stats, missing_gains, args, exc,
          repeated, ret>>

Unset == "unset"

----------------------------------------------------------------------------
(* Bounds of the model. *)

MaxDir == 2
MaxTim == 3
MaxFre == 2
MaxAnt == 2
MaxLast == 2
MaxInt == 2
MaxCells == 4
MaxEq == 1
MaxCalls == 2
MaxFlagged == 1
GeoMaxTim == 10
GeoMaxFre == 3
GeoMaxInt == 4
SumMaxTim == 10
SumMaxFre == 3
SumMaxInt == 4

----------------------------------------------------------------------------
(* The flag bits of cubical.flagging.FL that this class uses. *)

FL_PRIOR == 1
FL_MISSING == 2
FL_INVALID == 4
FL_ILLCOND == 8

RECURSIVE BitAnd(_, _)
BitAnd(a, b) ==
    IF a = 0 \/ b = 0 THEN 0
    ELSE (a % 2) * (b % 2) + 2 * BitAnd(a \div 2, b \div 2)

RECURSIVE BitOr(_, _)
BitOr(a, b) ==
    IF a = 0 THEN b
    ELSE IF b = 0 THEN a
    ELSE (IF a % 2 = 1 \/ b % 2 = 1 THEN 1 ELSE 0) + 2 * BitOr(a \div 2, b \div 2)

----------------------------------------------------------------------------
(* numpy arrays. *)

RECURSIVE Indices(_)
Indices(shape) ==
    IF shape = <<>> THEN {<<>>}
    ELSE {<<i>> \o rest : i \in 0..(Head(shape) - 1), rest \in Indices(Tail(shape))}

Arr(shape, data) == [ok |-> TRUE, shape |-> shape, data |-> data]

Raised == [ok |-> FALSE, shape |-> <<>>, data |-> <<>>]

(* An array attribute that no call has assigned yet. *)
Absent == [ok |-> FALSE, shape |-> <<>>, data |-> <<>>]

Full(shape, v) == Arr(shape, [ix \in Indices(shape) |-> v])

RECURSIVE Product(_)
Product(shape) == IF shape = <<>> THEN 1 ELSE Head(shape) * Product(Tail(shape))

Front(s) == SubSeq(s, 1, Len(s) - 1)

(* ufunc.reduceat(arr, bins, axis): the samples along the axis (of extent n)
   that output position i (1-based here) reduces.  numpy reduces
   arr[bins[i]:bins[i+1]], takes arr[bins[i]] alone when bins[i] >= bins[i+1],
   and lets the last position run to the end of the axis. *)
Segment(bins, i, n) ==
    IF i = Len(bins) THEN bins[i]..(n - 1)
    ELSE IF bins[i] < bins[i + 1] THEN bins[i]..(bins[i + 1] - 1)
    ELSE {bins[i]}

(* reduceat raises IndexError when an index is outside [0, n). *)
BinsInRange(bins, n) == \A i \in 1..Len(bins) : 0 <= bins[i] /\ bins[i] < n

RECURSIVE SumRange(_, _, _, _, _)
SumRange(data, ix, k, lo, hi) ==
    IF lo > hi THEN 0
    ELSE data[[ix EXCEPT ![k] = lo]] + SumRange(data, ix, k, lo + 1, hi)

SumSegment(data, ix, k, seg) ==
    IF seg = {} THEN 0
    ELSE SumRange(data, ix, k,
                  CHOOSE lo \in seg : \A x \in seg : lo <= x,
                  CHOOSE hi \in seg : \A x \in seg : x <= hi)

(* np.add.reduceat(arr, bins, k - 1): k is the 1-based position of the axis. *)
AddReduceAt(arr, bins, k) ==
    IF ~arr.ok \/ k > Len(arr.shape) THEN Raised
    ELSE IF ~BinsInRange(bins, arr.shape[k]) THEN Raised
    ELSE LET shape == [arr.shape EXCEPT ![k] = Len(bins)]
         IN  Arr(shape,
                 [ix \in Indices(shape) |->
                     SumSegment(arr.data, ix, k,
                                Segment(bins, ix[k] + 1, arr.shape[k]))])

(* np.logical_and.reduceat(arr, bins, k - 1). *)
AndReduceAt(arr, bins, k) ==
    IF ~arr.ok \/ k > Len(arr.shape) THEN Raised
    ELSE IF ~BinsInRange(bins, arr.shape[k]) THEN Raised
    ELSE LET shape == [arr.shape EXCEPT ![k] = Len(bins)]
         IN  Arr(shape,
                 [ix \in Indices(shape) |->
                     \A x \in Segment(bins, ix[k] + 1, arr.shape[k]) :
                         arr.data[[ix EXCEPT ![k] = x]]])

(* arr.all(axis=-1) *)
AllLastAxis(arr) ==
    LET shape == Front(arr.shape)
        last == arr.shape[Len(arr.shape)]
    IN  Arr(shape,
            [ix \in Indices(shape) |->
                \A x \in 0..(last - 1) : arr.data[ix \o <<x>>]])

(* arr.sum() of a boolean array: the number of true entries. *)
CountTrue(arr) == Cardinality({ix \in DOMAIN arr.data : arr.data[ix]})

----------------------------------------------------------------------------
(* __init__ *)

(* int(np.ceil(float(n) / d)) for d # 0 *)
CeilDiv_Floor(n, d) ==
    IF d > 0 THEN n \div d ELSE -(n \div (-d))

CeilDiv(n, d) ==
    IF d > 0 THEN -((-n) \div d) ELSE -(n \div (-d))

(* range(start, stop, step) for step # 0 *)
RECURSIVE PyRange(_, _, _)
PyRange(start, stop, step) ==
    IF (step > 0 /\ start >= stop) \/ (step < 0 /\ start <= stop) THEN <<>>
    ELSE <<start>> \o PyRange(start + step, stop, step)

Shapes(maxDir, maxTim, maxFre, maxAnt, loInt, hiInt) ==
    [n_dir : 1..maxDir, n_tim : 1..maxTim, n_fre : 1..maxFre, n_ant : 1..maxAnt,
     t_int : loInt..hiInt, f_int : loInt..hiInt]

(* The object's fields after __init__(model_arr, times, frequencies, options)
   with model_arr.shape and options as in p; a field the constructor did not
   reach stays Unset and pc names the exception. *)
Construct(p) ==
    LET blank == [pc |-> "constructed",
                  n_dir |-> p.n_dir, n_tim |-> p.n_tim, n_fre |-> p.n_fre,
                  n_ant |-> p.n_ant, t_int |-> p.t_int, f_int |-> p.f_int,
                  n_timint |-> Unset, n_freint |-> Unset, n_tf_ints |-> Unset,
                  t_bins |-> Unset, f_bins |-> Unset, flag_shape |-> Unset,
                  gflags |-> Unset]
    IN  IF p.t_int = 0 THEN [blank EXCEPT !.pc = "ZeroDivisionError"]
        ELSE LET nti == CeilDiv(p.n_tim, p.t_int) IN
        IF p.f_int = 0
        THEN [blank EXCEPT !.pc = "ZeroDivisionError", !.n_timint = nti]
        ELSE LET nfi == CeilDiv(p.n_fre, p.f_int)
                 shape == <<p.n_dir, nti, nfi, p.n_ant>>
                 built == [blank EXCEPT !.n_timint = nti, !.n_freint = nfi,
                                        !.n_tf_ints = nti * nfi,
                                        !.t_bins = PyRange(0, p.n_tim, p.t_int),
                                        !.f_bins = PyRange(0, p.n_fre, p.f_int),
                                        !.flag_shape = shape]
             IN  IF nti < 0 \/ nfi < 0
                 THEN [built EXCEPT !.pc = "ValueError"]
                 ELSE [built EXCEPT !.gflags = Full(shape, 0).data]

Init ==
    /\ pc = "new"
    /\ n_dir = Unset /\ n_tim = Unset /\ n_fre = Unset /\ n_ant = Unset
    /\ t_int = Unset /\ f_int = Unset
    /\ n_timint = Unset /\ n_freint = Unset /\ n_tf_ints = Unset
    /\ t_bins = Unset /\ f_bins = Unset
    /\ flag_shape = Unset /\ gflags = Unset
    /\ eqs_per_interval = Absent /\ valid_intervals = Absent
    /\ num_valid_intervals = Unset /\ missing_gain_fraction = Unset
    /\ missing_gains = Absent
    /\ op = "none" /\ args = Unset /\ exc = "none" /\ repeated = FALSE
    /\ n_calls = 0
    /\ ret = Absent

init(p) ==
    /\ pc = "new"
    /\ LET s == Construct(p) IN
        /\ pc' = s.pc
        /\ n_dir' = s.n_dir /\ n_tim' = s.n_tim /\ n_fre' = s.n_fre
        /\ n_ant' = s.n_ant /\ t_int' = s.t_int /\ f_int' = s.f_int
        /\ n_timint' = s.n_timint /\ n_freint' = s.n_freint
        /\ n_tf_ints' = s.n_tf_ints
        /\ t_bins' = s.t_bins /\ f_bins' = s.f_bins
        /\ flag_shape' = s.flag_shape /\ gflags' = s.gflags
        /\ exc' = IF s.pc = "constructed" THEN "none" ELSE s.pc
    /\ op' = "__init__"
    /\ args' = p
    /\ UNCHANGED <<stats, missing_gains, repeated, n_calls, ret>>

GeomParams == Shapes(MaxDir, GeoMaxTim, GeoMaxFre, MaxAnt, -GeoMaxInt, GeoMaxInt)

NextGeom == \E p \in GeomParams : init(p)

SpecGeom == Init /\ [][NextGeom]_vars

----------------------------------------------------------------------------
(* interval_sum, interval_and *)

interval_sum_SameBins(arr, tdim_ind) ==
    AddReduceAt(AddReduceAt(arr, t_bins, tdim_ind + 1), t_bins, tdim_ind + 2)

interval_sum(arr, tdim_ind) ==
    AddReduceAt(AddReduceAt(arr, t_bins, tdim_ind + 1), f_bins, tdim_ind + 2)

interval_and(arr, tdim_ind) ==
    AndReduceAt(AndReduceAt(arr, t_bins, tdim_ind + 1), f_bins, tdim_ind + 2)

(* A caller (the solver) applies interval_sum to a sample array. *)
call_interval_sum(arr) ==
    /\ pc = "constructed"
    /\ LET r == interval_sum(arr, 0) IN
        /\ ret' = r
        /\ exc' = IF r.ok THEN "none" ELSE "IndexError"
    /\ op' = "interval_sum"
    /\ args' = arr
    /\ repeated' = FALSE
    /\ UNCHANGED <<pc, geometry, gflags, stats, missing_gains, n_calls>>

SumParams == Shapes(1, SumMaxTim, SumMaxFre, 1, 1, SumMaxInt)

(* The [n_tim, n_fre] arrays a caller sums: all ones, or zero everywhere but
   in one cell. *)
SumInputs ==
    LET shape == <<n_tim, n_fre>> IN
    {Full(shape, 1)} \cup
    {Arr(shape, [ix \in Indices(shape) |-> IF ix = c THEN 2 ELSE 0]) :
        c \in Indices(shape)}

NextSum ==
    \/ \E p \in SumParams : init(p)
    \/ pc = "constructed" /\ \E arr \in SumInputs : call_interval_sum(arr)

SpecSum == Init /\ [][NextSum]_vars

----------------------------------------------------------------------------
(* compute_stats *)

(* flags & (FL.MISSING|FL.PRIOR) != 0, for one element: Python binds & tighter
   than !=. *)
IsMissingOrPrior_OnlyMissing(v) == BitAnd(v, FL_MISSING) # 0

IsMissingOrPrior(v) == BitAnd(v, BitOr(FL_MISSING, FL_PRIOR)) # 0

MaskTest(flags) ==
    Arr(flags.shape, [ix \in DOMAIN flags.data |-> IsMissingOrPrior(flags.data[ix])])

(* self.eqs_per_interval > 0 *)
ValidIntervals_NonNegative(epi) ==
    Arr(epi.shape, [ix \in DOMAIN epi.data |-> epi.data[ix] >= 0])

ValidIntervals(epi) ==
    Arr(epi.shape, [ix \in DOMAIN epi.data |-> epi.data[ix] > 0])

(* self.gflags[:, missing_gains] = FL.MISSING *)
SetMissing_Recompute(gf, mg) ==
    [ix \in DOMAIN gf |-> IF mg.data[Tail(ix)] THEN FL_MISSING ELSE 0]

SetMissing_Toggle(gf, mg) ==
    [ix \in DOMAIN gf |->
        IF mg.data[Tail(ix)]
        THEN (IF BitAnd(gf[ix], FL_MISSING) # 0 THEN gf[ix] - FL_MISSING
                                                ELSE gf[ix] + FL_MISSING)
        ELSE gf[ix]]

SetMissing(gf, mg) ==
    [ix \in DOMAIN gf |-> IF mg.data[Tail(ix)] THEN FL_MISSING ELSE gf[ix]]

compute_stats(flags, eqs_per_tf_slot) ==
    /\ pc = "constructed"
    /\ n_calls < MaxCalls
    /\ n_calls' = n_calls + 1
    /\ op' = "compute_stats"
    /\ args' = <<flags, eqs_per_tf_slot>>
    /\ repeated' = (op = "compute_stats" /\ args = <<flags, eqs_per_tf_slot>>)
    /\ UNCHANGED <<pc, geometry, ret>>
    /\ LET epi == interval_sum(eqs_per_tf_slot, 0) IN
        IF ~epi.ok
        THEN /\ exc' = "IndexError"
             /\ UNCHANGED <<gflags, stats, missing_gains>>
        ELSE
        /\ eqs_per_interval' = epi
        /\ valid_intervals' = ValidIntervals(epi)
        /\ num_valid_intervals' = CountTrue(ValidIntervals(epi))
        /\ LET mg == interval_and(AllLastAxis(MaskTest(flags)), 0) IN
            IF ~mg.ok
            THEN /\ exc' = "IndexError"
                 /\ UNCHANGED <<gflags, missing_gain_fraction, missing_gains>>
            ELSE /\ missing_gains' = mg
                 /\ gflags' = SetMissing(gflags, mg)
                 /\ missing_gain_fraction' = <<CountTrue(mg), Product(mg.shape)>>
                 /\ exc' = "none"

(* Another calibration stage flags one gain solution with self.flagbit. *)
flag_solution(ix) ==
    /\ pc = "constructed"
    /\ BitAnd(gflags[ix], FL_ILLCOND) = 0
    /\ Cardinality({jx \in DOMAIN gflags : BitAnd(gflags[jx], FL_ILLCOND) # 0})
           < MaxFlagged
    /\ gflags' = [gflags EXCEPT ![ix] = BitOr(@, FL_ILLCOND)]
    /\ op' = "flag_solution"
    /\ args' = ix
    /\ exc' = "none"
    /\ repeated' = FALSE
    /\ UNCHANGED <<pc, geometry, stats, missing_gains, n_calls, ret>>

Params ==
    {p \in Shapes(MaxDir, MaxTim, MaxFre, MaxAnt, 1, MaxInt) :
        p.n_dir * p.n_tim * p.n_fre * p.n_ant <= MaxCells}

Small(shapes) ==
    {s \in shapes : Product(s) <= MaxCells /\ \A k \in 1..Len(s) : s[k] >= 1}

(* The sample arrays of the object's own extents: flags is
   [n_tim, n_fre, n_ant, *] and the equation counts are [n_tim, n_fre], or
   carry a trailing antenna axis. *)
FlagShapes == Small({<<n_tim, n_fre, n_ant, l>> : l \in 1..MaxLast})

EqShapes == Small({<<n_tim, n_fre>>, <<n_tim, n_fre, n_ant>>})

(* The extents of a caller that gets them wrong: one more or one fewer sample
   along time or along frequency. *)
Deltas == {<<1, 0>>, <<-1, 0>>, <<0, 1>>, <<0, -1>>}

WrongFlagShapes == Small({<<n_tim + d[1], n_fre + d[2], n_ant, 1>> : d \in Deltas})

WrongEqShapes == Small({<<n_tim + d[1], n_fre + d[2]>> : d \in Deltas})

(* A sample is unflagged or flagged MISSING; or flagged INVALID or PRIOR. *)
FlagVals == {{0, FL_MISSING}, {FL_INVALID, FL_PRIOR}}

ArraysOf(shapes, vals) ==
    UNION {{Arr(s, d) : d \in [Indices(s) -> vals]} : s \in shapes}

Uniform(shapes, vals) == {Full(s, v) : s \in shapes, v \in vals}

Unflagged == Full(<<n_tim, n_fre, n_ant, 1>>, 0)

AllOnes == Full(<<n_tim, n_fre>>, 1)

(* The calls the solver makes: any flags with a full set of equations, any
   equation counts with nothing flagged, and constant arrays of the wrong
   extents. *)
Calls ==
    ((UNION {ArraysOf(FlagShapes, vals) : vals \in FlagVals}) \X {AllOnes})
    \cup ({Unflagged} \X ArraysOf(EqShapes, 0..MaxEq))
    \cup (Uniform(WrongFlagShapes, {0, FL_MISSING}) \X {AllOnes})
    \cup ({Unflagged} \X Uniform(WrongEqShapes, 0..MaxEq))

Next ==
    \/ \E p \in Params : init(p)
    \/ pc = "constructed" /\ \E c \in Calls : compute_stats(c[1], c[2])
    \/ pc = "constructed" /\ \E ix \in DOMAIN gflags : flag_solution(ix)

Spec == Init /\ [][Next]_vars

----------------------------------------------------------------------------
(* Properties *)

HasBit(v, bit) == (v \div bit) % 2 = 1

Min(a, b) == IF a < b THEN a ELSE b

(* The samples of an axis of extent len that fall in solution interval i of
   width int, the last of the nint intervals taking whatever is left. *)
SamplesOf(i, int, nint, len) ==
    {t \in 0..(len - 1) : Min(t \div int, nint - 1) = i}

RECURSIVE SumOver(_, _)
SumOver(data, cells) ==
    IF cells = {} THEN 0
    ELSE LET c == CHOOSE c \in cells : TRUE
         IN  data[c] + SumOver(data, cells \ {c})

Called == op = "compute_stats"

FlagsFit(flags) == SubSeq(flags.shape, 1, 3) = <<n_tim, n_fre, n_ant>>

EqsFit(eqs) == SubSeq(eqs.shape, 1, 2) = <<n_tim, n_fre>>

BinsGeometry(bins, nint, int, len) ==
    /\ (nint - 1) * int < len /\ len <= nint * int
    /\ Len(bins) = nint
    /\ bins[1] = 0
    /\ \A i \in 1..(Len(bins) - 1) : bins[i + 1] = bins[i] + int
    /\ \A i \in 1..Len(bins) : bins[i] < len

(* C3: after construction with n_tim, n_fre >= 1 and t_int, f_int >= 1,
   n_timint is the ceiling of n_tim / t_int (the least k with k * t_int >=
   n_tim), t_bins has n_timint entries, starts at 0, rises in steps of t_int
   and stays below n_tim; likewise along frequency; and gflags has shape
   [n_dir, n_timint, n_freint, n_ant]. *)
C3_IntervalGeometry ==
    (pc # "new" /\ t_int >= 1 /\ f_int >= 1) =>
        /\ pc = "constructed"
        /\ BinsGeometry(t_bins, n_timint, t_int, n_tim)
        /\ BinsGeometry(f_bins, n_freint, f_int, n_fre)
        /\ flag_shape = <<n_dir, n_timint, n_freint, n_ant>>
        /\ DOMAIN gflags =
               (0..(n_dir - 1)) \X (0..(n_timint - 1)) \X (0..(n_freint - 1))
                   \X (0..(n_ant - 1))
        /\ \A ix \in DOMAIN gflags : gflags[ix] = 0

(* C3's case: ten samples in intervals of three, and an interval wider than
   the frequency axis. *)
C3_Witness ==
    /\ pc = "constructed"
    /\ n_tim = 10 /\ t_int = 3 /\ n_timint = 4 /\ t_bins = <<0, 3, 6, 9>>
    /\ n_fre = 2 /\ f_int = 4 /\ n_freint = 1 /\ f_bins = <<0>>

(* C10: construction with time-int <= 0 or freq-int <= 0 ends in
   InvalidConfiguration: never in an object, never in a numeric fault. *)
C10_InvalidConfiguration ==
    (pc # "new" /\ (t_int <= 0 \/ f_int <= 0)) => pc = "InvalidConfiguration"

Block(i, int, len) == {t \in 0..(len - 1) : i * int <= t /\ t < Min((i + 1) * int, len)}

(* C2: interval_sum of an [n_tim, n_fre] array has shape [n_timint, n_freint];
   cell (i, j) is the sum of the input cells with t in
   [i*t_int, min((i+1)*t_int, n_tim)) and f in [j*f_int, min((j+1)*f_int,
   n_fre)); every input sample lies in exactly one such block; and for an
   all-ones input the last time interval counts n_tim - (n_timint-1)*t_int
   samples per frequency sample of the block. *)
C2_IntervalSumBinning ==
    (op = "interval_sum") =>
        /\ ret.ok
        /\ ret.shape = <<n_timint, n_freint>>
        /\ \A i \in 0..(n_timint - 1), j \in 0..(n_freint - 1) :
               ret.data[<<i, j>>] =
                   SumOver(args.data, Block(i, t_int, n_tim) \X Block(j, f_int, n_fre))
        /\ \A t \in 0..(n_tim - 1), f \in 0..(n_fre - 1) :
               Cardinality({ij \in DOMAIN ret.data :
                               /\ t \in Block(ij[1], t_int, n_tim)
                               /\ f \in Block(ij[2], f_int, n_fre)}) = 1
        /\ (\A c \in DOMAIN args.data : args.data[c] = 1) =>
               \A j \in 0..(n_freint - 1) :
                   ret.data[<<n_timint - 1, j>>] =
                       (n_tim - (n_timint - 1) * t_int)
                           * Cardinality(Block(j, f_int, n_fre))

(* C2's case: ten ones in intervals of three sum to 3, 3, 3, 1. *)
C2_Witness ==
    /\ op = "interval_sum"
    /\ n_tim = 10 /\ t_int = 3 /\ n_fre = 1
    /\ \A c \in DOMAIN args.data : args.data[c] = 1
    /\ ret.data = (<<0, 0>> :> 3) @@ (<<1, 0>> :> 3) @@ (<<2, 0>> :> 3) @@ (<<3, 0>> :> 1)

AllFlagged(flags, ti, fi, a) ==
    \A t \in SamplesOf(ti, t_int, n_timint, n_tim),
       f \in SamplesOf(fi, f_int, n_freint, n_fre),
       x \in 0..(flags.shape[4] - 1) :
        \/ HasBit(flags.data[<<t, f, a, x>>], FL_MISSING)
        \/ HasBit(flags.data[<<t, f, a, x>>], FL_PRIOR)

(* C1: a compute_stats call on a freshly constructed object (gflags all zero),
   with flags of the object's extents, leaves the MISSING bit in
   gflags[d, ti, fi, a] exactly when every sample (t, f) of interval (ti, fi)
   has the MISSING or the PRIOR bit in flags[t, f, a, x] for every x: the
   same for every direction d, and in no other slot. *)
C1_MissingPropagation ==
    [][(/\ op' = "compute_stats"
        /\ n_calls = 0
        /\ \A ix \in DOMAIN gflags : gflags[ix] = 0
        /\ FlagsFit(args'[1]) /\ EqsFit(args'[2]))
       => /\ exc' = "none"
          /\ \A ix \in DOMAIN gflags' :
                HasBit(gflags'[ix], FL_MISSING)
                    <=> AllFlagged(args'[1], ix[2], ix[3], ix[4])]_vars

(* C1's case: both samples of the one interval flagged PRIOR, and the slot
   marked MISSING in both directions by the first call. *)
C1_Witness ==
    /\ Called /\ exc = "none" /\ n_calls = 1
    /\ n_dir = 2 /\ n_tim = 2 /\ t_int = 2
    /\ args[1].data = (<<0, 0, 0, 0>> :> FL_PRIOR) @@ (<<1, 0, 0, 0>> :> FL_PRIOR)
    /\ gflags = (<<0, 0, 0, 0>> :> FL_MISSING) @@ (<<1, 0, 0, 0>> :> FL_MISSING)

(* C4: a compute_stats call leaves in every gflags slot its old value OR'ed
   with MISSING where the call marks the slot missing: a bit set before the
   call, such as ILLCOND, is still set after it. *)
C4_NoClobber ==
    [][(op' = "compute_stats" /\ exc' = "none")
       => \A ix \in DOMAIN gflags :
            gflags'[ix] = IF missing_gains'.data[Tail(ix)]
                          THEN BitOr(gflags[ix], FL_MISSING)
                          ELSE gflags[ix]]_vars

(* C5: after a compute_stats call, the MISSING bit of every gflags slot
   reflects that call's missing_gains alone: a slot an earlier call marked,
   and this one does not, no longer carries the bit. *)
C5_Recompute ==
    (Called /\ exc = "none") =>
        \A ix \in DOMAIN gflags :
            HasBit(gflags[ix], FL_MISSING) <=> missing_gains.data[Tail(ix)]

(* C6: a compute_stats call with the arguments of the compute_stats call just
   before it changes none of gflags, valid_intervals, num_valid_intervals,
   eqs_per_interval and missing_gain_fraction. *)
C6_Idempotent ==
    [][(op' = "compute_stats" /\ repeated')
       => (gflags' = gflags /\ stats' = stats)]_vars

(* C6's case: a repeated call on flags that carry MISSING and ILLCOND. *)
C6_Witness ==
    /\ Called /\ repeated /\ exc = "none"
    /\ \E ix \in DOMAIN gflags : gflags[ix] = FL_MISSING
    /\ \E ix \in DOMAIN gflags : gflags[ix] = FL_ILLCOND

(* C7: a compute_stats call leaves every gflags slot it does not mark missing
   at the value the slot had before the call. *)
C7_NonDestructive ==
    [][(op' = "compute_stats")
       => \A ix \in DOMAIN gflags :
            \/ exc' = "none" /\ missing_gains'.data[Tail(ix)]
            \/ gflags'[ix] = gflags[ix]]_vars

(* C7's case: a call that marks one slot missing and leaves alone another
   that carries ILLCOND. *)
C7_Witness ==
    /\ Called /\ exc = "none"
    /\ \E ix \in DOMAIN gflags :
          gflags[ix] = FL_ILLCOND /\ ~missing_gains.data[Tail(ix)]
    /\ \E ix \in DOMAIN gflags : missing_gains.data[Tail(ix)]

ValidCount ==
    /\ num_valid_intervals =
          Cardinality({ix \in DOMAIN eqs_per_interval.data :
                          eqs_per_interval.data[ix] > 0})
    /\ num_valid_intervals <= n_timint * n_freint
    /\ num_valid_intervals = n_timint * n_freint =>
          /\ \A ti \in 0..(n_timint - 1), fi \in 0..(n_freint - 1) :
                \E ix \in DOMAIN eqs_per_interval.data :
                    ix[1] = ti /\ ix[2] = fi /\ eqs_per_interval.data[ix] >= 1
          /\ (Called /\ exc = "none") =>
                \A ti \in 0..(n_timint - 1), fi \in 0..(n_freint - 1) :
                    \E ix \in DOMAIN args[2].data :
                        /\ ix[1] \in SamplesOf(ti, t_int, n_timint, args[2].shape[1])
                        /\ ix[2] \in SamplesOf(fi, f_int, n_freint, args[2].shape[2])
                        /\ args[2].data[ix] > 0

(* C8: once compute_stats has summed the equation counts, num_valid_intervals
   is the number of entries of eqs_per_interval above zero, is at most
   n_timint * n_freint, and equals it only when every interval holds at least
   one equation (some sample of the interval has a count above zero). *)
C8_ValidCountBound ==
    (pc = "constructed" /\ eqs_per_interval.ok) => ValidCount

(* C8 as amended: the same, for equation counts of exactly two axes, time and
   frequency, which sum to an [n_timint, n_freint] array. *)
C8_ValidCountBound2D ==
    (pc = "constructed" /\ eqs_per_interval.ok /\ Len(eqs_per_interval.shape) = 2)
        => ValidCount

(* C8's case: two intervals, both valid, one of them with a sample that has no
   equation. *)
C8_Witness ==
    /\ Called /\ exc = "none" /\ Len(args[2].shape) = 2
    /\ n_timint * n_freint = 2
    /\ num_valid_intervals = 2
    /\ \E ix \in DOMAIN args[2].data : args[2].data[ix] = 0

(* C9: a compute_stats call with flags or equation counts whose time,
   frequency or antenna extents are not the object's ends in ShapeMismatch and
   changes neither gflags nor the stored statistics. *)
C9_ShapeValidation ==
    [][(op' = "compute_stats" /\ (~FlagsFit(args'[1]) \/ ~EqsFit(args'[2])))
       => IF exc' = "ShapeMismatch"
          THEN gflags' = gflags /\ stats' = stats
          ELSE FALSE]_vars

====
